---- MODULE Spec2Model ----
(***************************************************************************)
(* crawl4ai-mcp: the result normalizer handle_crawl_result and the three   *)
(* tool entry points google_search, deep_crawl and crawl of                *)
(* src/crawl4ai_mcp/server.py, with the crawling library (AsyncWebCrawler) *)
(* as a nondeterministic collaborator.                                     *)
(***************************************************************************)
EXTENDS Integers, Sequences, FiniteSets, TLC

\* ------------------------------------------------------------------------
\* Bounds
\* ------------------------------------------------------------------------
\* longest tail of further outcomes behind the first one in a container
MaxTail == 1
\* most elements the collaborator's asynchronous sequence yields in one call
MaxPages == 2

\* ------------------------------------------------------------------------
\* Python values
\* ------------------------------------------------------------------------
\* Python's None in a str | None field (no crawled text is this sentinel)
None == "None"

\* bool(v) of a str | None value: None and "" are falsy
Truthy(v) == v # None /\ v # ""

\* Python's `a or b` on str | None values
PyOr(a, b) == IF Truthy(a) THEN a ELSE b

\* settings.content_type, "one of: html, markdown"
ContentTypes == {"markdown", "html"}

\* ------------------------------------------------------------------------
\* MCPCrawlResult (types.py)
\* ------------------------------------------------------------------------
\* url, content and error_message default to None
MCPCrawlResult(status, url, content, error_message) ==
  [status |-> status, url |-> url, content |-> content,
   error_message |-> error_message]

MCPError(msg) == MCPCrawlResult("error", None, None, msg)

\* placeholder where no MCPCrawlResult was produced
NoResult == MCPCrawlResult(None, None, None, None)

\* outcome of evaluating a Python call: a returned value or a raised exception
Returns(v) == [raised |-> FALSE, exc |-> None, value |-> v]
Raises(m) == [raised |-> TRUE, exc |-> m, value |-> NoResult]

\* ------------------------------------------------------------------------
\* The collaborator's values (crawl4ai CrawlResult, CrawlResultContainer)
\* ------------------------------------------------------------------------
\* result.markdown is None or an object with a fit and a raw variant; the
\* object itself is an ordinary (truthy) object, as in tests/test_server.py
NoMarkdown == [present |-> FALSE, fit_markdown |-> None, raw_markdown |-> None]

Markdowns ==
  {NoMarkdown} \cup
  [present : {TRUE}, fit_markdown : {None, "", "fit"},
   raw_markdown : {None, "", "raw"}]

CrawlResults ==
  [type : {"CrawlResult"}, success : BOOLEAN, url : {"http://x"},
   html : {None, "", "<html>"}, markdown : Markdowns,
   extracted_content : {None, "", "extracted"},
   error_message : {None, "", "Page not found"}]

\* a few outcomes used where a whole sequence of outcomes is enumerated
SampleOk ==
  [type |-> "CrawlResult", success |-> TRUE, url |-> "http://x",
   html |-> "<html>",
   markdown |-> [present |-> TRUE, fit_markdown |-> "fit",
                 raw_markdown |-> "raw"],
   extracted_content |-> None, error_message |-> None]

SampleFailed ==
  [type |-> "CrawlResult", success |-> FALSE, url |-> "http://x",
   html |-> None, markdown |-> NoMarkdown,
   extracted_content |-> None, error_message |-> "Page not found"]

SampleExtracted ==
  [type |-> "CrawlResult", success |-> TRUE, url |-> "http://x",
   html |-> None,
   markdown |-> [present |-> TRUE, fit_markdown |-> None,
                 raw_markdown |-> "raw"],
   extracted_content |-> "extracted", error_message |-> ""]

Samples == {SampleOk, SampleFailed, SampleExtracted}

\* a value of a type that is neither CrawlResult nor CrawlResultContainer
OtherValues == {[type |-> "str"], [type |-> "NoneType"]}

RECURSIVE SeqsUpTo(_, _)
\* all sequences over S of length at most n
SeqsUpTo(S, n) ==
  IF n = 0 THEN {<<>>}
  ELSE LET shorter == SeqsUpTo(S, n - 1)
       IN shorter \cup {Append(s, x) : s \in shorter, x \in S}

Container(items) == [type |-> "CrawlResultContainer", results |-> items]

\* containers: empty, or a first outcome followed by a short tail
Containers ==
  {Container(<<>>)} \cup
  {Container(<<first>> \o tail) :
     first \in CrawlResults, tail \in SeqsUpTo(Samples, MaxTail)} \cup
  {Container(<<other>>) : other \in OtherValues}

RawInputs == CrawlResults \cup Containers \cup OtherValues

\* f"{type(result)}"
TypeRepr(v) == "<class '" \o v.type \o "'>"

\* ------------------------------------------------------------------------
\* handle_crawl_result (server.py 25-58)
\* ------------------------------------------------------------------------
\* unwrapping to the last element instead of the first
ContainerFirst_Last(c) ==
  IF Len(c.results) = 0 THEN Raises("list index out of range")
  ELSE Returns(c.results[Len(c.results)])

\* CrawlResultContainer.__getitem__(0): list indexing, IndexError when empty
ContainerFirst(c) ==
  IF Len(c.results) = 0 THEN Raises("list index out of range")
  ELSE Returns(c.results[1])

\* the chain with a parameter for each place a slip could sit:
\* htmlNeedsSuccess - the html branch tests result.success;
\* htmlFallback - the html branch falls back to extracted content;
\* fitFirst - fit_markdown is preferred over raw_markdown
NormalizeOutcomeVariant(result, ct, htmlNeedsSuccess, htmlFallback, fitFirst) ==
  IF result.type # "CrawlResult"
  THEN MCPError("Unexpected result type from crawler: " \o TypeRepr(result))
  ELSE IF (result.success \/ ~htmlNeedsSuccess) /\ ct = "html"
  THEN MCPCrawlResult("success", result.url,
         IF htmlFallback THEN PyOr(result.html, result.extracted_content)
         ELSE result.html, None)
  ELSE IF result.success /\ result.markdown.present
  THEN LET output_content == PyOr(result.extracted_content, "")
       IN IF ~Truthy(output_content) /\ result.markdown.present
          THEN MCPCrawlResult("success", result.url,
                 IF fitFirst
                 THEN PyOr(result.markdown.fit_markdown,
                           result.markdown.raw_markdown)
                 ELSE PyOr(result.markdown.raw_markdown,
                           result.markdown.fit_markdown), None)
          ELSE MCPError("The crawler failed to extract any valid content.")
  ELSE MCPError(PyOr(result.error_message, "Unknown crawl error."))

\* `elif settings.content_type == "html"` without the success test
NormalizeOutcome_HtmlIgnoresSuccess(result, content_type) ==
  NormalizeOutcomeVariant(result, content_type, FALSE, FALSE, TRUE)

\* `content=result.html or result.extracted_content`
NormalizeOutcome_HtmlFallback(result, content_type) ==
  NormalizeOutcomeVariant(result, content_type, TRUE, TRUE, TRUE)

\* `result.markdown.raw_markdown or result.markdown.fit_markdown`
NormalizeOutcome_RawFirst(result, content_type) ==
  NormalizeOutcomeVariant(result, content_type, TRUE, FALSE, FALSE)

\* the return of the success result moved out of the inner `if`, so that
\* non-empty extracted content is returned
NormalizeOutcome_ReturnsExtracted(result, content_type) ==
  IF result.type # "CrawlResult"
  THEN MCPError("Unexpected result type from crawler: " \o TypeRepr(result))
  ELSE IF result.success /\ content_type = "html"
  THEN MCPCrawlResult("success", result.url, result.html, None)
  ELSE IF result.success /\ result.markdown.present
  THEN LET output_content == PyOr(result.extracted_content, "")
       IN MCPCrawlResult("success", result.url,
            IF ~Truthy(output_content)
            THEN PyOr(result.markdown.fit_markdown,
                      result.markdown.raw_markdown)
            ELSE output_content, None)
  ELSE MCPError(PyOr(result.error_message, "Unknown crawl error."))

\* the if/elif chain on a value that is no longer a container
NormalizeOutcome(result, content_type) ==
  IF result.type # "CrawlResult"
  THEN MCPError("Unexpected result type from crawler: " \o TypeRepr(result))
  ELSE IF result.success /\ content_type = "html"
  THEN MCPCrawlResult("success", result.url, result.html, None)
  ELSE IF result.success /\ result.markdown.present
  THEN LET output_content == PyOr(result.extracted_content, "")
       IN IF ~Truthy(output_content) /\ result.markdown.present
          THEN MCPCrawlResult("success", result.url,
                 PyOr(result.markdown.fit_markdown,
                      result.markdown.raw_markdown), None)
          ELSE MCPError("The crawler failed to extract any valid content.")
  ELSE MCPError(PyOr(result.error_message, "Unknown crawl error."))

handle_crawl_result(result, content_type) ==
  IF result.type = "CrawlResultContainer"
  THEN LET first == ContainerFirst(result)
       IN IF first.raised THEN Raises(first.exc)
          ELSE Returns(NormalizeOutcome(first.value, content_type))
  ELSE Returns(NormalizeOutcome(result, content_type))

\* ------------------------------------------------------------------------
\* State
\* ------------------------------------------------------------------------
\* a tool call served on its own
Sequential == {"c1"}

\* two tool calls running at the same time
Concurrent == {"a", "b"}

\* the tool calls of the process
Calls == Sequential \cup Concurrent

\* str(e) of an exception the collaborator raises
Msgs == {"E1", "E2"}

\* values the collaborator hands to a tool: single results and the elements
\* of its asynchronous sequences
ToolRaws ==
  Samples \cup {Container(<<SampleOk, SampleFailed>>), Container(<<>>),
                [type |-> "str"]}

\* a page crawled for call c alone: its url names the call
OwnPage(c) ==
  [type |-> "CrawlResult", success |-> TRUE, url |-> "http://" \o c,
   html |-> "<html>",
   markdown |-> [present |-> TRUE, fit_markdown |-> "fit",
                 raw_markdown |-> "raw"],
   extracted_content |-> None, error_message |-> None]

\* most elements a sequence yields to one of the concurrent calls
ConcurrentPages == 1

\* what the collaborator can hand to call c
PagesOf(c) ==
  IF c \in Sequential THEN ToolRaws ELSE {OwnPage(c), SampleFailed}

\* how many elements call c's sequence yields at most
PageLimit(c) == IF c \in Sequential THEN MaxPages ELSE ConcurrentPages

\* type(pages) when arun / arun_many does not return an AsyncIterator
NonIteratorTypes == {"str", "CrawlResultContainer"}

VARIABLES
  content_type,  \* settings.content_type
  cli,           \* the entry command: its --transport argument and app.run
  call,          \* call[c]: the frame of tool call c (position, locals)
  crawler,       \* crawler[c]: what call c's AsyncWebCrawler was asked to do
  stdout,        \* sys.stdout, process-wide
  raw,           \* argument of a direct handle_crawl_result evaluation
  normalized     \* its outcome

vars == <<content_type, cli, call, crawler, stdout, raw, normalized>>

\* a tool call that has not been made
IdleCall ==
  [tool |-> "none", pc |-> "idle", results |-> <<>>,
   pend |-> "none", pendValue |-> <<>>, pendExc |-> None,
   saved |-> None, retval |-> <<>>, escaped |-> None]

\* a crawler that has not been constructed
NoCrawler ==
  [session |-> "none", fetchCalls |-> 0, nextCalls |-> 0, closeCalls |-> 0,
   pagesType |-> None, yielded |-> <<>>, seqExc |-> None,
   fetchExc |-> None, releaseExc |-> None, unredirected |-> {}]

\* normalized before handle_crawl_result was evaluated
NotEvaluated == [raised |-> FALSE, exc |-> "not evaluated", value |-> NoResult]

\* click.Choice(["stdio", "html"]) and default="stdio" (main.py 9-10)
TransportChoices == {"stdio", "html"}

TransportDefault == "stdio"

\* what may follow --transport on the command line; None: the flag is absent
TransportArgs == {None, "stdio", "html", "http", "sse"}

\* server.py run as a script: app.run(transport="stdio") (server.py 250-252)
ServerScript == [arg |-> None, pc |-> "running", transport |-> "stdio"]

ToolInit ==
  /\ call = [c \in Calls |-> IdleCall]
  /\ crawler = [c \in Calls |-> NoCrawler]
  /\ stdout = "stdout"

\* the process after import: settings loaded, no tool call made
Init ==
  /\ content_type \in ContentTypes
  /\ cli = ServerScript
  /\ ToolInit
  /\ raw = [type |-> "NoneType"]
  /\ normalized = NotEvaluated

\* the normalizer alone, on every input of the bounded domain
InitNormalize ==
  /\ content_type \in ContentTypes
  /\ cli = ServerScript
  /\ ToolInit
  /\ raw \in RawInputs
  /\ normalized = NotEvaluated

\* one direct evaluation of handle_crawl_result(raw)
Normalize ==
  /\ normalized = NotEvaluated
  /\ normalized' = handle_crawl_result(raw, content_type)
  /\ UNCHANGED <<content_type, cli, call, crawler, stdout, raw>>

NextNormalize == Normalize

SpecNormalize == InitNormalize /\ [][NextNormalize]_vars

\* ------------------------------------------------------------------------
\* Pieces shared by the tool entry points
\* ------------------------------------------------------------------------
\* the io.TextIOWrapper over sys.stderr.buffer that call c builds
RedirectTarget(c) == "stderr:" \o c

\* the text in front of str(e) in each tool's except clause
ErrorPrefix(tool) ==
  IF tool = "google_search" THEN "An error occurred during Google search: "
  ELSE IF tool = "deep_crawl" THEN "An error occurred during deep crawl: "
  ELSE "An unexpected error occurred during crawl: "

\* the single-element list returned when pages is not an AsyncIterator
NotIteratorResult(ty) ==
  <<MCPError("Expected an AsyncIterator instance from arun, got: <class '"
             \o ty \o "'>")>>

\* except Exception as e: results.append(MCPCrawlResult(status="error", ...))
ExceptAppend(f, m) ==
  [f EXCEPT !.results = Append(@, MCPError(ErrorPrefix(f.tool) \o m))]

\* an exception leaves the body of `async with`
LeaveWithException(f, m) == [f EXCEPT !.pend = "exception", !.pendExc = m]

\* a return statement leaves the body of `async with` or of try/finally
LeaveWithReturn(f, v) == [f EXCEPT !.pend = "return", !.pendValue = v]

\* control falls off the end of the body
LeaveNormally(f) == [f EXCEPT !.pend = "fallthrough"]

\* leaving `async with AsyncWebCrawler(...)`: await crawler.__aexit__(...)
AsyncWithExit(f) == [f EXCEPT !.pc = "aexit"]

\* the call returns v to the tool protocol
ReturnToCaller(f, v) == [f EXCEPT !.pc = "returned", !.retval = v]

\* an exception escapes the call
RaiseToCaller(f, m) == [f EXCEPT !.pc = "raised", !.escaped = m]

\* the collaborator runs the given steps for this crawler while sys.stdout
\* is `out`: steps run on the real stdout are noted
Observed(k, steps, out) ==
  IF out = "stdout" THEN [k EXCEPT !.unredirected = @ \cup steps] ELSE k

\* close() / __aexit__ is invoked on the crawler
ReleaseInvoked(k) == [k EXCEPT !.closeCalls = @ + 1]

\* close() / __aexit__ finished: normally (m = None), or by raising m
ReleaseDone(k, m) ==
  [k EXCEPT !.session = IF m = None THEN "closed" ELSE "close failed",
            !.releaseExc = m]

\* ------------------------------------------------------------------------
\* deep_crawl (server.py 111-185)
\* ------------------------------------------------------------------------
\* finally: await crawler.close()
DeepCrawlFinally(f) == [f EXCEPT !.pc = "close"]

\* lines 121-162: build the config, construct the crawler, redirect stdout
\* and await crawler.arun
DeepCrawlStart(c) ==
  /\ call[c].pc = "idle"
  /\ call' = [call EXCEPT ![c] =
       [@ EXCEPT !.tool = "deep_crawl", !.pc = "arun", !.saved = stdout]]
  /\ stdout' = RedirectTarget(c)
  /\ crawler' = [crawler EXCEPT ![c] =
       Observed(
         [@ EXCEPT !.session = "created", !.fetchCalls = @ + 1],
         {"fetch"}, RedirectTarget(c))]
  /\ UNCHANGED <<content_type, cli, raw, normalized>>

\* the early return written outside the try/finally: close() is skipped
DeepCrawlNotIterator_Unreleased(c, ty) ==
  /\ call' = [call EXCEPT ![c] = ReturnToCaller(@, NotIteratorResult(ty))]
  /\ crawler' = [crawler EXCEPT ![c] =
       Observed(
         [@ EXCEPT !.pagesType = ty],
         {"fetch"}, stdout)]

\* lines 163-171 and 183-184: pages is not an AsyncIterator: the return of
\* the one-element error list is held while `finally` awaits close()
DeepCrawlNotIterator(c, ty) ==
  /\ call' = [call EXCEPT ![c] =
       DeepCrawlFinally(LeaveWithReturn(@, NotIteratorResult(ty)))]
  /\ crawler' = [crawler EXCEPT ![c] =
       Observed(
         Observed(
           ReleaseInvoked([@ EXCEPT !.pagesType = ty]),
           {"fetch"}, stdout),
         {"release"}, call[c].saved)]

\* lines 162-172: arun completed; the redirect ends; type check of pages
DeepCrawlFetched(c) ==
  /\ call[c].tool = "deep_crawl"
  /\ call[c].pc = "arun"
  /\ stdout' = call[c].saved
  /\ \/ \E m \in Msgs :
          /\ call' = [call EXCEPT ![c] =
               DeepCrawlFinally(ExceptAppend(@, m))]
          /\ crawler' = [crawler EXCEPT ![c] =
               Observed(
                 Observed(
                   ReleaseInvoked([@ EXCEPT !.fetchExc = m]),
                   {"fetch"}, stdout),
                 {"release"}, call[c].saved)]
     \/ \E ty \in NonIteratorTypes : DeepCrawlNotIterator(c, ty)
     \/ /\ call' = [call EXCEPT ![c] = [@ EXCEPT !.pc = "anext"]]
        /\ crawler' = [crawler EXCEPT ![c] =
             Observed(
               Observed(
                 [@ EXCEPT !.pagesType = "AsyncIterator", !.nextCalls = @ + 1],
                 {"fetch"}, stdout),
               {"next"}, call[c].saved)]
  /\ UNCHANGED <<content_type, cli, raw, normalized>>

\* lines 172-174: one turn of `async for page_result in pages`
DeepCrawlNext(c) ==
  /\ call[c].tool = "deep_crawl"
  /\ call[c].pc = "anext"
  /\ \/ \E r \in PagesOf(c) :
          LET h == handle_crawl_result(r, content_type)
          IN /\ Len(crawler[c].yielded) < PageLimit(c)
             /\ IF h.raised
                THEN /\ call' = [call EXCEPT ![c] =
                          DeepCrawlFinally(ExceptAppend(@, h.exc))]
                     /\ crawler' = [crawler EXCEPT ![c] =
                          Observed(
                            ReleaseInvoked([@ EXCEPT !.yielded = Append(@, r)]),
                            {"next", "release"}, stdout)]
                ELSE /\ call' = [call EXCEPT ![c] =
                          [@ EXCEPT !.results = Append(@, h.value)]]
                     /\ crawler' = [crawler EXCEPT ![c] =
                          Observed(
                            [@ EXCEPT !.yielded = Append(@, r), !.nextCalls = @ + 1],
                            {"next"}, stdout)]
     \/ /\ call' = [call EXCEPT ![c] =
             DeepCrawlFinally(LeaveNormally(@))]
        /\ crawler' = [crawler EXCEPT ![c] =
             Observed(
               ReleaseInvoked(@),
               {"next", "release"}, stdout)]
     \/ \E m \in Msgs :
          /\ call' = [call EXCEPT ![c] =
               DeepCrawlFinally(ExceptAppend(@, m))]
          /\ crawler' = [crawler EXCEPT ![c] =
               Observed(
                 ReleaseInvoked([@ EXCEPT !.seqExc = m]),
                 {"next", "release"}, stdout)]
  /\ UNCHANGED <<content_type, cli, stdout, raw, normalized>>

\* lines 183-185: close() completed; return results (or the pending return
\* value), unless close() raised
DeepCrawlClosed(c) ==
  /\ call[c].tool = "deep_crawl"
  /\ call[c].pc = "close"
  /\ \/ /\ call' = [call EXCEPT ![c] =
             ReturnToCaller(@, IF @.pend = "return" THEN @.pendValue
                               ELSE @.results)]
        /\ crawler' = [crawler EXCEPT ![c] =
             Observed(
               ReleaseDone(@, None),
               {"release"}, stdout)]
     \/ \E m \in Msgs :
          /\ call' = [call EXCEPT ![c] = RaiseToCaller(@, m)]
          /\ crawler' = [crawler EXCEPT ![c] =
               Observed(
                 ReleaseDone(@, m),
                 {"release"}, stdout)]
  /\ UNCHANGED <<content_type, cli, stdout, raw, normalized>>

\* ------------------------------------------------------------------------
\* crawl (server.py 188-247)
\* ------------------------------------------------------------------------
\* lines 199-222: build the config, construct the crawler, await __aenter__
CrawlStart(c) ==
  /\ call[c].pc = "idle"
  /\ call' = [call EXCEPT ![c] = [@ EXCEPT !.tool = "crawl", !.pc = "aenter"]]
  /\ crawler' = [crawler EXCEPT ![c] =
       Observed(
         [@ EXCEPT !.session = "created"],
         {"open"}, stdout)]
  /\ UNCHANGED <<content_type, cli, stdout, raw, normalized>>

\* lines 222-226: __aenter__ completed; redirect stdout, await arun_many;
\* an exception of __aenter__ goes to the except clause (no __aexit__)
CrawlEntered(c) ==
  /\ call[c].tool = "crawl"
  /\ call[c].pc = "aenter"
  /\ \/ /\ call' = [call EXCEPT ![c] =
             [@ EXCEPT !.pc = "arun", !.saved = stdout]]
        /\ stdout' = RedirectTarget(c)
        /\ crawler' = [crawler EXCEPT ![c] =
             Observed(
               Observed(
                 [@ EXCEPT !.session = "open", !.fetchCalls = @ + 1],
                 {"open"}, stdout),
               {"fetch"}, RedirectTarget(c))]
     \/ \E m \in Msgs :
          /\ call' = [call EXCEPT ![c] =
               LET g == ExceptAppend(@, m) IN ReturnToCaller(g, g.results)]
          /\ crawler' = [crawler EXCEPT ![c] =
               Observed(
                 [@ EXCEPT !.session = "failed"],
                 {"open"}, stdout)]
          /\ UNCHANGED stdout
  /\ UNCHANGED <<content_type, cli, raw, normalized>>

\* lines 226-236: arun_many completed; the redirect ends; type check of pages
CrawlFetched(c) ==
  /\ call[c].tool = "crawl"
  /\ call[c].pc = "arun"
  /\ stdout' = call[c].saved
  /\ \/ \E m \in Msgs :
          /\ call' = [call EXCEPT ![c] =
               AsyncWithExit(LeaveWithException(@, m))]
          /\ crawler' = [crawler EXCEPT ![c] =
               Observed(
                 Observed(
                   ReleaseInvoked([@ EXCEPT !.fetchExc = m]),
                   {"fetch"}, stdout),
                 {"release"}, call[c].saved)]
     \/ \E ty \in NonIteratorTypes :
          /\ call' = [call EXCEPT ![c] =
               AsyncWithExit(LeaveWithReturn(@, NotIteratorResult(ty)))]
          /\ crawler' = [crawler EXCEPT ![c] =
               Observed(
                 Observed(
                   ReleaseInvoked([@ EXCEPT !.pagesType = ty]),
                   {"fetch"}, stdout),
                 {"release"}, call[c].saved)]
     \/ /\ call' = [call EXCEPT ![c] = [@ EXCEPT !.pc = "anext"]]
        /\ crawler' = [crawler EXCEPT ![c] =
             Observed(
               Observed(
                 [@ EXCEPT !.pagesType = "AsyncIterator", !.nextCalls = @ + 1],
                 {"fetch"}, stdout),
               {"next"}, call[c].saved)]
  /\ UNCHANGED <<content_type, cli, raw, normalized>>

\* lines 236-237: one turn of `async for result in pages`
CrawlNext(c) ==
  /\ call[c].tool = "crawl"
  /\ call[c].pc = "anext"
  /\ \/ \E r \in PagesOf(c) :
          LET h == handle_crawl_result(r, content_type)
          IN /\ Len(crawler[c].yielded) < PageLimit(c)
             /\ IF h.raised
                THEN /\ call' = [call EXCEPT ![c] =
                          AsyncWithExit(LeaveWithException(@, h.exc))]
                     /\ crawler' = [crawler EXCEPT ![c] =
                          Observed(
                            ReleaseInvoked([@ EXCEPT !.yielded = Append(@, r)]),
                            {"next", "release"}, stdout)]
                ELSE /\ call' = [call EXCEPT ![c] =
                          [@ EXCEPT !.results = Append(@, h.value)]]
                     /\ crawler' = [crawler EXCEPT ![c] =
                          Observed(
                            [@ EXCEPT !.yielded = Append(@, r), !.nextCalls = @ + 1],
                            {"next"}, stdout)]
     \/ /\ call' = [call EXCEPT ![c] = AsyncWithExit(LeaveNormally(@))]
        /\ crawler' = [crawler EXCEPT ![c] =
             Observed(
               ReleaseInvoked(@),
               {"next", "release"}, stdout)]
     \/ \E m \in Msgs :
          /\ call' = [call EXCEPT ![c] =
               AsyncWithExit(LeaveWithException(@, m))]
          /\ crawler' = [crawler EXCEPT ![c] =
               Observed(
                 ReleaseInvoked([@ EXCEPT !.seqExc = m]),
                 {"next", "release"}, stdout)]
  /\ UNCHANGED <<content_type, cli, stdout, raw, normalized>>

\* lines 222-247: __aexit__ completed (it returns None, so a pending
\* exception goes on to the except clause); an exception of __aexit__
\* replaces whatever was pending; then `return results`
CrawlExited(c) ==
  /\ call[c].tool = "crawl"
  /\ call[c].pc = "aexit"
  /\ \/ /\ call' = [call EXCEPT ![c] =
             IF @.pend = "exception"
             THEN LET g == ExceptAppend(@, @.pendExc)
                  IN ReturnToCaller(g, g.results)
             ELSE IF @.pend = "return" THEN ReturnToCaller(@, @.pendValue)
             ELSE ReturnToCaller(@, @.results)]
        /\ crawler' = [crawler EXCEPT ![c] =
             Observed(
               ReleaseDone(@, None),
               {"release"}, stdout)]
     \/ \E m \in Msgs :
          /\ call' = [call EXCEPT ![c] =
               LET g == ExceptAppend(@, m) IN ReturnToCaller(g, g.results)]
          /\ crawler' = [crawler EXCEPT ![c] =
               Observed(
                 ReleaseDone(@, m),
                 {"release"}, stdout)]
  /\ UNCHANGED <<content_type, cli, stdout, raw, normalized>>

\* ------------------------------------------------------------------------
\* google_search (server.py 65-107); its single result is retval[1]
\* ------------------------------------------------------------------------
\* except Exception as e: return MCPCrawlResult(status="error", ...)
GoogleSearchExcept(f, m) ==
  ReturnToCaller(f, <<MCPError(ErrorPrefix("google_search") \o m)>>)

\* lines 75-93: build the config, construct the crawler, await __aenter__
GoogleSearchStart(c) ==
  /\ call[c].pc = "idle"
  /\ call' = [call EXCEPT ![c] =
       [@ EXCEPT !.tool = "google_search", !.pc = "aenter"]]
  /\ crawler' = [crawler EXCEPT ![c] =
       Observed(
         [@ EXCEPT !.session = "created"],
         {"open"}, stdout)]
  /\ UNCHANGED <<content_type, cli, stdout, raw, normalized>>

\* lines 93-100: __aenter__ completed; redirect stdout, await arun
GoogleSearchEntered(c) ==
  /\ call[c].tool = "google_search"
  /\ call[c].pc = "aenter"
  /\ \/ /\ call' = [call EXCEPT ![c] =
             [@ EXCEPT !.pc = "arun", !.saved = stdout]]
        /\ stdout' = RedirectTarget(c)
        /\ crawler' = [crawler EXCEPT ![c] =
             Observed(
               Observed(
                 [@ EXCEPT !.session = "open", !.fetchCalls = @ + 1],
                 {"open"}, stdout),
               {"fetch"}, RedirectTarget(c))]
     \/ \E m \in Msgs :
          /\ call' = [call EXCEPT ![c] = GoogleSearchExcept(@, m)]
          /\ crawler' = [crawler EXCEPT ![c] =
               Observed(
                 [@ EXCEPT !.session = "failed"],
                 {"open"}, stdout)]
          /\ UNCHANGED stdout
  /\ UNCHANGED <<content_type, cli, raw, normalized>>

\* lines 97-101: arun completed; the redirect ends;
\* return handle_crawl_result(result) leaves the `async with`
GoogleSearchFetched(c) ==
  /\ call[c].tool = "google_search"
  /\ call[c].pc = "arun"
  /\ stdout' = call[c].saved
  /\ \/ \E m \in Msgs :
          /\ call' = [call EXCEPT ![c] =
               AsyncWithExit(LeaveWithException(@, m))]
          /\ crawler' = [crawler EXCEPT ![c] =
               Observed(
                 Observed(
                   ReleaseInvoked([@ EXCEPT !.fetchExc = m]),
                   {"fetch"}, stdout),
                 {"release"}, call[c].saved)]
     \/ \E r \in PagesOf(c) :
          LET h == handle_crawl_result(r, content_type)
          IN /\ call' = [call EXCEPT ![c] =
                  IF h.raised
                  THEN AsyncWithExit(LeaveWithException(@, h.exc))
                  ELSE AsyncWithExit(LeaveWithReturn(@, <<h.value>>))]
             /\ crawler' = [crawler EXCEPT ![c] =
                  Observed(
                    Observed(
                      ReleaseInvoked([@ EXCEPT !.yielded = <<r>>]),
                      {"fetch"}, stdout),
                    {"release"}, call[c].saved)]
  /\ UNCHANGED <<content_type, cli, raw, normalized>>

\* lines 93-107: __aexit__ completed; the pending return or exception
\* takes effect; an exception of __aexit__ replaces it
GoogleSearchExited(c) ==
  /\ call[c].tool = "google_search"
  /\ call[c].pc = "aexit"
  /\ \/ /\ call' = [call EXCEPT ![c] =
             IF @.pend = "exception" THEN GoogleSearchExcept(@, @.pendExc)
             ELSE ReturnToCaller(@, @.pendValue)]
        /\ crawler' = [crawler EXCEPT ![c] =
             Observed(
               ReleaseDone(@, None),
               {"release"}, stdout)]
     \/ \E m \in Msgs :
          /\ call' = [call EXCEPT ![c] = GoogleSearchExcept(@, m)]
          /\ crawler' = [crawler EXCEPT ![c] =
               Observed(
                 ReleaseDone(@, m),
                 {"release"}, stdout)]
  /\ UNCHANGED <<content_type, cli, stdout, raw, normalized>>

\* ------------------------------------------------------------------------
\* Specifications
\* ------------------------------------------------------------------------
Next ==
  \E c \in Sequential :
    \/ GoogleSearchStart(c)
    \/ GoogleSearchEntered(c)
    \/ GoogleSearchFetched(c)
    \/ GoogleSearchExited(c)
    \/ DeepCrawlStart(c)
    \/ DeepCrawlFetched(c)
    \/ DeepCrawlNext(c)
    \/ DeepCrawlClosed(c)
    \/ CrawlStart(c)
    \/ CrawlEntered(c)
    \/ CrawlFetched(c)
    \/ CrawlNext(c)
    \/ CrawlExited(c)

Spec == Init /\ [][Next]_vars

\* tool calls running concurrently on the one event loop: each action is the
\* code of one call between two awaits, and any call may be resumed next
NextConcurrent ==
  \E c \in Concurrent :
    \/ GoogleSearchStart(c)
    \/ GoogleSearchEntered(c)
    \/ GoogleSearchFetched(c)
    \/ GoogleSearchExited(c)
    \/ DeepCrawlStart(c)
    \/ DeepCrawlFetched(c)
    \/ DeepCrawlNext(c)
    \/ DeepCrawlClosed(c)
    \/ CrawlStart(c)
    \/ CrawlEntered(c)
    \/ CrawlFetched(c)
    \/ CrawlNext(c)
    \/ CrawlExited(c)

SpecConcurrent == Init /\ [][NextConcurrent]_vars

\* ------------------------------------------------------------------------
\* main (main.py 6-19)
\* ------------------------------------------------------------------------
\* lines 16-19: the transport handed to app.run
MainTransport(transport) ==
  IF transport = "http" THEN "streamable-http" ELSE "stdio"

\* the entry command started with some --transport argument
InitMain ==
  /\ content_type \in ContentTypes
  /\ cli \in [arg : TransportArgs, pc : {"start"}, transport : {None}]
  /\ ToolInit
  /\ raw = [type |-> "NoneType"]
  /\ normalized = NotEvaluated

\* lines 6-19: click takes the default for an absent flag and rejects a value
\* outside the choices with a usage error; main runs the app
Main ==
  /\ cli.pc = "start"
  /\ LET value == IF cli.arg = None THEN TransportDefault ELSE cli.arg
     IN cli' = IF value \in TransportChoices
               THEN [cli EXCEPT !.pc = "running",
                                !.transport = MainTransport(value)]
               ELSE [cli EXCEPT !.pc = "usage error"]
  /\ UNCHANGED <<content_type, call, crawler, stdout, raw, normalized>>

\* the running app serves tool calls
Serve ==
  /\ cli.pc = "running"
  /\ Next

NextMain == Main \/ Serve

SpecMain == InitMain /\ [][NextMain]_vars

\* ------------------------------------------------------------------------
\* Properties
\* ------------------------------------------------------------------------
\* call c is over: it returned or an exception escaped it
Finished(c) == call[c].pc \in {"returned", "raised"}

\* the collaborator raised at some step of call c
CollaboratorFailed(c) ==
  \/ crawler[c].session = "failed"
  \/ crawler[c].fetchExc # None
  \/ crawler[c].seqExc # None
  \/ crawler[c].releaseExc # None

HasErrorEntry(list) == \E i \in 1..Len(list) : list[i].status = "error"

\* the normalizations of a sequence of yielded elements, in order
NormalizedAll(items) ==
  [i \in 1..Len(items) |-> handle_crawl_result(items[i], content_type).value]

\* handle_crawl_result(raw) has been evaluated
Evaluated == normalized # NotEvaluated

WellFormed(r) ==
  /\ r.status \in {"success", "error"}
  /\ r.status = "success" =>
       r.url # None /\ r.content # None /\ r.error_message = None
  /\ r.status = "error" =>
       r.url = None /\ r.content = None /\ r.error_message # None

\* C1: no tool call lets an exception escape: whatever step of the
\* collaborator fails (open, fetch, next element, release), the call returns
\* and its result holds an error entry.
C1_NoErrorCrossesToolBoundary ==
  \A c \in Calls :
    /\ call[c].pc # "raised"
    /\ (call[c].pc = "returned" /\ CollaboratorFailed(c))
         => HasErrorEntry(call[c].retval)

\* C2: in deep_crawl close() is called at most once, has been called exactly
\* once and has run (to its end or to its own exception) when the call is
\* over, on every exit path, and once close() was called no fetch and no
\* next-element step follows.
C2_DeepCrawlReleasesOnce ==
  /\ [](\A c \in Calls :
          call[c].tool = "deep_crawl" =>
            /\ crawler[c].closeCalls <= 1
            /\ Finished(c) =>
                 /\ crawler[c].closeCalls = 1
                 /\ crawler[c].session \in {"closed", "close failed"})
  /\ [][\A c \in Calls :
          (call[c].tool = "deep_crawl" /\ crawler[c].closeCalls >= 1) =>
            /\ crawler'[c].fetchCalls = crawler[c].fetchCalls
            /\ crawler'[c].nextCalls = crawler[c].nextCalls
            /\ crawler'[c].yielded = crawler[c].yielded]_vars

\* a deep_crawl that returned after its sequence yielded and then raised
C2_Witness ==
  \E c \in Calls :
    /\ call[c].tool = "deep_crawl"
    /\ call[c].pc = "returned"
    /\ crawler[c].seqExc # None
    /\ Len(crawler[c].yielded) >= 1
    /\ crawler[c].closeCalls = 1

\* C3: in crawl and deep_crawl, when the sequence yields k elements and then
\* raises, the call returns k+1 entries: the k normalizations in yield order
\* and one error entry with the exception's message; nothing is consumed
\* after the failure.
C3_PartialResultsThenError ==
  \A c \in Calls :
    (/\ call[c].tool \in {"crawl", "deep_crawl"}
     /\ crawler[c].seqExc # None
     /\ Finished(c))
    => /\ call[c].pc = "returned"
       /\ call[c].retval =
            NormalizedAll(crawler[c].yielded) \o
            <<MCPError(ErrorPrefix(call[c].tool) \o crawler[c].seqExc)>>
       /\ crawler[c].nextCalls = Len(crawler[c].yielded) + 1

\* C4: handle_crawl_result never raises and always gives one MCPCrawlResult.
C4_NormalizerTotal ==
  Evaluated =>
    /\ ~normalized.raised
    /\ normalized.value.status \in {"success", "error"}

\* C5: every result of handle_crawl_result and every entry a tool returns is
\* well-formed: success has url and content and no error_message, error has
\* an error_message and neither url nor content.
C5_ResultsWellFormed ==
  /\ (Evaluated /\ ~normalized.raised) => WellFormed(normalized.value)
  /\ \A c \in Calls :
       call[c].pc = "returned" =>
         \A i \in 1..Len(call[c].retval) : WellFormed(call[c].retval[i])

\* C6: in deep_crawl and crawl, when the fetch returns something that is not
\* an AsyncIterator, the call returns exactly one error entry naming the
\* type, nothing was consumed or normalized, and the session was released.
C6_NotIteratorSingleError ==
  \A c \in Calls :
    (/\ call[c].tool \in {"crawl", "deep_crawl"}
     /\ crawler[c].pagesType \in NonIteratorTypes
     /\ Finished(c))
    => /\ call[c].pc = "returned"
       /\ call[c].retval = NotIteratorResult(crawler[c].pagesType)
       /\ crawler[c].nextCalls = 0
       /\ crawler[c].yielded = <<>>
       /\ crawler[c].closeCalls = 1
       /\ crawler[c].session = "closed"

\* C7: an outcome with success=false normalizes, under either content type
\* and whatever its other fields hold, to an error with the outcome's
\* message, or "Unknown crawl error." when that is empty or absent.
C7_FailedOutcomeIsError ==
  (Evaluated /\ raw.type = "CrawlResult" /\ ~raw.success) =>
    normalized =
      Returns(MCPError(IF Truthy(raw.error_message) THEN raw.error_message
                       ELSE "Unknown crawl error."))

\* a failed outcome full of content, in html mode, with no message
C7_Witness ==
  /\ Evaluated
  /\ raw.type = "CrawlResult"
  /\ ~raw.success
  /\ content_type = "html"
  /\ raw.html = "<html>"
  /\ raw.markdown.present
  /\ raw.extracted_content = "extracted"
  /\ raw.error_message = ""
  /\ normalized.value.error_message = "Unknown crawl error."

\* C8: in markdown mode a successful outcome with empty extracted content
\* normalizes to success with its url and the fit markdown when that is
\* non-empty, else the raw markdown when that is non-empty.
C8_FitBeforeRaw ==
  (/\ Evaluated
   /\ raw.type = "CrawlResult"
   /\ raw.success
   /\ ~Truthy(raw.extracted_content)
   /\ content_type = "markdown")
  => /\ Truthy(raw.markdown.fit_markdown) =>
          normalized = Returns(MCPCrawlResult("success", raw.url,
                                 raw.markdown.fit_markdown, None))
     /\ (~Truthy(raw.markdown.fit_markdown)
         /\ Truthy(raw.markdown.raw_markdown)) =>
          normalized = Returns(MCPCrawlResult("success", raw.url,
                                 raw.markdown.raw_markdown, None))

\* both variants non-empty: the fit one was returned
C8_Witness ==
  /\ Evaluated
  /\ raw.type = "CrawlResult"
  /\ raw.success
  /\ raw.extracted_content = ""
  /\ content_type = "markdown"
  /\ raw.markdown.fit_markdown = "fit"
  /\ raw.markdown.raw_markdown = "raw"
  /\ normalized.value.content = "fit"

\* C9: in html mode a successful outcome normalizes to success with its url
\* and exactly its raw HTML, whatever markdown and extracted content hold.
C9_HtmlExactly ==
  (/\ Evaluated
   /\ raw.type = "CrawlResult"
   /\ raw.success
   /\ content_type = "html")
  => normalized = Returns(MCPCrawlResult("success", raw.url, raw.html, None))

\* empty HTML next to markdown and extracted content: content is ""
C9_Witness ==
  /\ Evaluated
  /\ raw.type = "CrawlResult"
  /\ raw.success
  /\ content_type = "html"
  /\ raw.html = ""
  /\ raw.markdown.fit_markdown = "fit"
  /\ raw.extracted_content = "extracted"
  /\ normalized.value.content = ""

\* C10: a container of one or more outcomes normalizes as its first element
\* does; the elements behind the first have no influence.
C10_ContainerAsFirst ==
  (/\ Evaluated
   /\ raw.type = "CrawlResultContainer"
   /\ Len(raw.results) >= 1
   /\ raw.results[1].type = "CrawlResult")
  => normalized = handle_crawl_result(raw.results[1], content_type)

\* a container whose second element would normalize differently
C10_Witness ==
  /\ Evaluated
  /\ raw.type = "CrawlResultContainer"
  /\ Len(raw.results) = 2
  /\ raw.results[1].type = "CrawlResult"
  /\ handle_crawl_result(raw.results[2], content_type)
       # handle_crawl_result(raw.results[1], content_type)
  /\ normalized = handle_crawl_result(raw.results[1], content_type)

\* C11: --transport accepts exactly stdio and html and defaults to stdio;
\* stdio or no flag runs the server on stdio, html runs it on
\* streamable-http.
C11_TransportSelectsChannel ==
  cli.pc # "start" =>
    /\ cli.pc = "running" <=> cli.arg \in {None, "stdio", "html"}
    /\ cli.arg \in {None, "stdio"} => cli.transport = "stdio"
    /\ cli.arg = "html" => cli.transport = "streamable-http"

\* C12: concurrent tool calls are independent: a call's crawler is touched
\* only by steps of that call, a returned list holds only pages crawled for
\* that call, and once every call is over sys.stdout is bound as it was
\* before the calls started.
C12_ConcurrentCallsIndependent ==
  /\ \A c \in Concurrent :
       /\ call[c].pc = "idle" => crawler[c] = NoCrawler
       /\ call[c].pc = "returned" =>
            \A i \in 1..Len(call[c].retval) :
              call[c].retval[i].status = "success" =>
                call[c].retval[i].url = OwnPage(c).url
  /\ (\A c \in Concurrent : Finished(c)) => stdout = "stdout"

\* C13: in markdown mode a successful outcome with no usable content (empty
\* extracted content and no markdown object, or one whose fit and raw
\* variants are both empty) normalizes to an error with the outcome's
\* message or "Unknown crawl error."; success never comes with empty or
\* absent content.
C13_NoUsableContentIsError ==
  (/\ Evaluated
   /\ raw.type = "CrawlResult"
   /\ raw.success
   /\ content_type = "markdown")
  => /\ (/\ ~Truthy(raw.extracted_content)
         /\ ~Truthy(raw.markdown.fit_markdown)
         /\ ~Truthy(raw.markdown.raw_markdown)) =>
          normalized =
            Returns(MCPError(PyOr(raw.error_message, "Unknown crawl error.")))
     /\ normalized.value.status = "success" =>
          Truthy(normalized.value.content)

\* C14: in markdown mode a successful outcome with a markdown object and
\* non-empty extracted content normalizes to the error "The crawler failed
\* to extract any valid content."; the extracted content is not returned.
C14_ExtractedContentIsError ==
  (/\ Evaluated
   /\ raw.type = "CrawlResult"
   /\ raw.success
   /\ raw.markdown.present
   /\ Truthy(raw.extracted_content)
   /\ content_type = "markdown")
  => normalized =
       Returns(MCPError("The crawler failed to extract any valid content."))

\* extracted content next to both markdown variants: an error came back
C14_Witness ==
  /\ Evaluated
  /\ raw.type = "CrawlResult"
  /\ raw.success
  /\ raw.markdown.fit_markdown = "fit"
  /\ raw.markdown.raw_markdown = "raw"
  /\ raw.extracted_content = "extracted"
  /\ content_type = "markdown"
  /\ normalized.value.status = "error"
  /\ normalized.value.content = None

\* C15: during a tool call no step of the collaborator (opening the session,
\* the fetch, each retrieval of the next element, closing the session) runs
\* while sys.stdout is the real stdout.
C15_CollaboratorNeverOnStdout ==
  \A c \in Calls : crawler[c].unredirected = {}

====
